---- MODULE Spec2Model ----
(***************************************************************************)
(* Model of yew-unocss-transformer (src/src/lib.rs): the variant-group     *)
(* rewriting of the uno! macro.  A string is a sequence of one-character   *)
(* strings.  The three regular expressions are modelled by the search a    *)
(* leftmost-first (backtracking-order) regex engine performs on them.      *)
(***************************************************************************)
EXTENDS Integers, Sequences, FiniteSets, TLC

VARIABLES inputs, parsed, previous, depth, pc, pushes

vars == <<inputs, parsed, previous, depth, pc, pushes>>

----------------------------------------------------------------------------
(* Character classes *)

Letters == {"a", "b", "c", "d", "x", "y"}
Digits == {"0", "1", "2"}

\* \w : letters, digits and the underscore
WordChars == Letters \cup Digits \cup {"_"}

\* \s
Whitespace == {" ", "\n", "\t"}

\* [!\w+:_/-]
PrefixClass == WordChars \cup {"!", "+", ":", "_", "/", "-"}

\* [~!\w\s:/\\,%#.$-]
BodyClass == WordChars \cup Whitespace \cup
             {"~", "!", ":", "/", "\\", ",", "%", "#", ".", "$", "-"}

\* [:-]
SepClass == {":", "-"}

\* . matches every character except the line feed
Dot(c) == c # "\n"

SEPARATORS == {"-", ":"}

----------------------------------------------------------------------------
(* CLASS_GROUP_REG                                                         *)
(*   ((?:[!\w+:_/-]|\[&?>?:?.*\])+?)([:-])\(((?:[~!\w\s:/\\,%#.$-]|\[.*?\])*?)\) *)
(* Positions are 1-based indices of the next character to read.  A failed  *)
(* search is 0; a successful one is the index of the closing parenthesis.  *)

RECURSIVE BodyFrom(_, _), BodyBracket(_, _)

\* (?:C|\[.*?\])*? followed by \) : lazy, so the closing parenthesis is tried
\* before another repetition
BodyFrom(s, p) ==
    IF p > Len(s) THEN 0
    ELSE IF s[p] = ")" THEN p
    ELSE IF s[p] \in BodyClass THEN BodyFrom(s, p + 1)
    ELSE IF s[p] = "[" THEN BodyBracket(s, p + 1)
    ELSE 0

\* \[.*?\] with the opening bracket read: lazy, the shortest run first;
\* q is the index where \] is tried
BodyBracket(s, q) ==
    IF q > Len(s) THEN 0
    ELSE LET r == IF s[q] = "]" THEN BodyFrom(s, q + 1) ELSE 0
         IN  IF r # 0 THEN r
             ELSE IF Dot(s[q]) THEN BodyBracket(s, q + 1)
             ELSE 0

\* ([:-])\( and the body, after a prefix that ends before p
GroupTail(s, p) ==
    IF p + 1 <= Len(s) /\ s[p] \in SepClass /\ s[p + 1] = "("
    THEN BodyFrom(s, p + 2)
    ELSE 0

\* the last index of the run of . characters that starts at p (p - 1 if none)
DotRunEnd(s, p) ==
    LET stops == { q \in p..Len(s) : ~Dot(s[q]) }
    IN  IF stops = {} THEN Len(s)
        ELSE (CHOOSE q \in stops : \A r \in stops : q <= r) - 1

NoMatch == <<0, 0>>

RECURSIVE PrefixFrom(_, _), PrefixIter(_, _), PrefixBracket(_, _, _)

\* after one repetition or more of the prefix group, which ends before p:
\* +? is lazy, so the rest of the pattern is tried before another repetition.
\* The result is <<index of the separator, index of the closing parenthesis>>.
PrefixFrom(s, p) ==
    LET t == GroupTail(s, p)
    IN  IF t # 0 THEN <<p, t>> ELSE PrefixIter(s, p)

\* one repetition of (?:[!\w+:_/-]|\[&?>?:?.*\]) at p
PrefixIter(s, p) ==
    IF p > Len(s) THEN NoMatch
    ELSE IF s[p] \in PrefixClass THEN PrefixFrom(s, p + 1)
    ELSE IF s[p] = "[" THEN PrefixBracket(s, p, DotRunEnd(s, p + 1))
    ELSE NoMatch

\* \[&?>?:?.*\] with the opening bracket at p: .* is greedy, so the longest
\* run is tried first; q is the index where \] is tried.  The optional & > :
\* are also matched by . and so add no other end position.
PrefixBracket(s, p, q) ==
    IF q <= p THEN NoMatch
    ELSE LET r == IF s[q] = "]" THEN PrefixFrom(s, q + 1) ELSE NoMatch
         IN  IF r # NoMatch THEN r ELSE PrefixBracket(s, p, q - 1)

\* the match that starts at index i, if any
MatchAt(s, i) == PrefixIter(s, i)

----------------------------------------------------------------------------
(* String helpers of the standard library *)

RECURSIVE Join(_, _)
\* [String]::join
Join(items, sep) ==
    IF Len(items) = 0 THEN <<>>
    ELSE IF Len(items) = 1 THEN items[1]
    ELSE items[1] \o sep \o Join(Tail(items), sep)

RECURSIVE SplitFrom(_, _, _)
\* WHITESPACE_REG.split(..): every single whitespace character delimits;
\* `from` is the start of the piece being read, p the index being read
SplitFrom(s, from, p) ==
    IF p > Len(s) THEN << SubSeq(s, from, Len(s)) >>
    ELSE IF s[p] \in Whitespace
         THEN << SubSeq(s, from, p - 1) >> \o SplitFrom(s, p + 1, p + 1)
         ELSE SplitFrom(s, from, p + 1)

\* .split(&caps[3]).filter(|item| !item.is_empty())
Members(body) == SelectSeq(SplitFrom(body, 1, 1), LAMBDA item : item # <<>>)

----------------------------------------------------------------------------
(* Replacement templates of the regex crate: $$ is a literal dollar sign,  *)
(* $name and ${name} insert a capture group, a dollar sign that starts no   *)
(* reference stays as it is.                                               *)

DigitVal == [c \in Digits |-> IF c = "0" THEN 0 ELSE IF c = "1" THEN 1 ELSE 2]

\* the characters of an unbraced group name: [0-9A-Za-z_]
CapLetters == Letters \cup Digits \cup {"_"}

RECURSIVE CapNameEnd(_, _)
\* the index after the longest run of name characters that starts at p
CapNameEnd(t, p) ==
    IF p <= Len(t) /\ t[p] \in CapLetters THEN CapNameEnd(t, p + 1) ELSE p

RECURSIVE BraceEnd(_, _)
\* the index of the first closing brace at or after p, 0 if none
BraceEnd(t, p) ==
    IF p > Len(t) THEN 0
    ELSE IF t[p] = "}" THEN p
    ELSE BraceEnd(t, p + 1)

RECURSIVE Decimal(_)
Decimal(name) ==
    IF Len(name) = 0 THEN 0
    ELSE 10 * Decimal(SubSeq(name, 1, Len(name) - 1)) + DigitVal[name[Len(name)]]

\* str::parse::<u32>: digits, after an optional plus sign
IsNumber(name) ==
    LET ds == IF Len(name) > 0 /\ name[1] = "+" THEN Tail(name) ELSE name
    IN  Len(ds) > 0 /\ \A k \in 1..Len(ds) : ds[k] \in Digits

NumberOf(name) ==
    Decimal(IF name[1] = "+" THEN Tail(name) ELSE name)

\* the reference that starts at the dollar sign at p: its name and the index
\* after it; end = 0 when the dollar sign starts no reference
FindCapRef(t, p) ==
    IF p + 1 > Len(t) THEN [end |-> 0, name |-> <<>>]
    ELSE IF t[p + 1] = "{"
         THEN LET e == BraceEnd(t, p + 2)
              IN  IF e = 0 THEN [end |-> 0, name |-> <<>>]
                  ELSE [end |-> e + 1, name |-> SubSeq(t, p + 2, e - 1)]
         ELSE LET e == CapNameEnd(t, p + 1)
              IN  IF e = p + 1 THEN [end |-> 0, name |-> <<>>]
                  ELSE [end |-> e, name |-> SubSeq(t, p + 1, e - 1)]

\* the text of the group a reference names; groups is <<group 0, group 1, ..>>.
\* A number past the last group and every name (no group is named) give "".
CapText(groups, name) ==
    IF IsNumber(name) /\ NumberOf(name) < Len(groups)
    THEN groups[NumberOf(name) + 1]
    ELSE <<>>

RECURSIVE ExpandFrom(_, _, _)
\* Captures::expand
ExpandFrom(t, p, groups) ==
    IF p > Len(t) THEN <<>>
    ELSE IF t[p] # "$" THEN <<t[p]>> \o ExpandFrom(t, p + 1, groups)
    ELSE IF p + 1 <= Len(t) /\ t[p + 1] = "$"
         THEN <<"$">> \o ExpandFrom(t, p + 2, groups)
    ELSE LET ref == FindCapRef(t, p)
         IN  IF ref.end = 0
             THEN <<"$">> \o ExpandFrom(t, p + 1, groups)
             ELSE CapText(groups, ref.name) \o ExpandFrom(t, ref.end, groups)

\* IMPORTANCE_REG ^(!?)(.*) replaced once in item by the template: the match
\* starts at the first character, group 1 is the leading "!" if there is one,
\* group 2 the run of . characters after it
ImportanceReplace(item, template) ==
    LET g1  == IF Len(item) > 0 /\ item[1] = "!" THEN <<"!">> ELSE <<>>
        e   == DotRunEnd(item, Len(g1) + 1)
        g2  == SubSeq(item, Len(g1) + 1, e)
    IN  ExpandFrom(template, 1, <<g1 \o g2, g1, g2>>) \o SubSeq(item, e + 1, Len(item))

\* format!("${{1}}{}{}${{2}}", &caps[1], &caps[2])
Template(prefix, sep) ==
    <<"$", "{", "1", "}">> \o prefix \o sep \o <<"$", "{", "2", "}">>

\* the closure taking every member that holds a "~" for the placeholder
ExpandMember_ContainsTilde(prefix, sep, item) ==
    IF \E k \in 1..Len(item) : item[k] = "~" THEN prefix
    ELSE ImportanceReplace(item, Template(prefix, sep))

\* the closure given to map
ExpandMember(prefix, sep, item) ==
    IF item = <<"~">> THEN prefix
    ELSE ImportanceReplace(item, Template(prefix, sep))

\* the closure given to replace_all; caps = [whole, prefix, sep, body]
GroupReplacement(caps) ==
    IF caps.sep \notin { <<c>> : c \in SEPARATORS } THEN caps.whole
    ELSE LET ms == Members(caps.body)
         IN  Join([k \in 1..Len(ms) |-> ExpandMember(caps.prefix, caps.sep, ms[k])],
                  <<" ">>)

\* the capture groups of the match of s that starts at i; m is MatchAt(s, i)
Captures(s, i, m) ==
    [whole  |-> SubSeq(s, i, m[2]),
     prefix |-> SubSeq(s, i, m[1] - 1),
     sep    |-> <<s[m[1]]>>,
     body   |-> SubSeq(s, m[1] + 2, m[2] - 1)]

\* the start of the leftmost match of s at or after `at`, 0 if there is none
FindAt(s, at) ==
    LET starts == { i \in at..Len(s) : MatchAt(s, i) # NoMatch }
    IN  IF starts = {} THEN 0
        ELSE CHOOSE i \in starts : \A j \in starts : i <= j

RECURSIVE ReplaceAllFrom(_, _)
\* replace_all: the matches are found left to right, each search starting
\* where the last match ended; `at` is the first index not yet copied
ReplaceAllFrom(s, at) ==
    LET i == FindAt(s, at)
    IN  IF i = 0 THEN SubSeq(s, at, Len(s))
        ELSE LET m == MatchAt(s, i)
             IN  SubSeq(s, at, i - 1) \o GroupReplacement(Captures(s, i, m))
                   \o ReplaceAllFrom(s, m[2] + 1)

\* a pass that also takes an underscore before a parenthesis for a separator
shallow_transform_underscore(str) ==
    ReplaceAllFrom([k \in 1..Len(str) |->
                      IF str[k] = "_" /\ k < Len(str) /\ str[k + 1] = "("
                      THEN "-" ELSE str[k]], 1)

shallow_transform(str) == ReplaceAllFrom(str, 1)

----------------------------------------------------------------------------
(* transform *)

InitialDepth == 10

\* depth -= 1 on a u8
DecU8(d) == (d + 255) % 256

\* the loop without its budget
BreakLoop_NoBudget(transformed, prev, d) == transformed = prev

\* the loop comparing the lengths of the two strings
BreakLoop_SameLength(transformed, prev, d) == Len(transformed) = Len(prev) \/ d = 0

\* transformed == previous || depth == 0
BreakLoop(transformed, prev, d) == transformed = prev \/ d = 0

RECURSIVE TransformLoop(_, _)
TransformLoop(prev, d) ==
    LET transformed == shallow_transform(prev)
        d2 == DecU8(d)
    IN  IF BreakLoop(transformed, prev, d2) THEN prev
        ELSE TransformLoop(transformed, d2)

transform(str) == TransformLoop(str, InitialDepth)

----------------------------------------------------------------------------
(* The literals given to the macro *)

MaxMembers == 2
MaxNest == 11
MaxSiblingNest == 4
MaxLen == 4
MaxInputs == 2

\* all sequences over S of a length in lo..hi
SeqsOf(S, lo, hi) == UNION { [1..n -> S] : n \in lo..hi }

PrefixSet ==
    { <<"a">>, <<"x", ":", "a">>, <<"[", "a", " ", "b", "]">>,
      <<"[", "&", ">", "a", "]">>, <<"[", "$", "1", "]">>, <<"[", "$", "$", "]">> }

SepSet == {"-", ":", "_"}

MemberSet ==
    { <<"b">>, <<"!", "b">>, <<"~">>, <<"!", "~">>, <<"~", "b">>, <<"$", "1">> }

\* the whitespace between the members and around them
Layouts == { [gap |-> <<" ">>, pad |-> <<>>],
             [gap |-> <<" ", "\n">>, pad |-> <<"\t">>] }

BodyText(ms, layout) ==
    IF Len(ms) = 0 THEN layout.pad
    ELSE layout.pad \o Join(ms, layout.gap) \o layout.pad

Group(prefix, sep, body) == prefix \o <<sep, "(">> \o body \o <<")">>

\* one group: prefix, separator, members, layout
GroupInputs ==
    { Group(P, sep, BodyText(ms, layout)) :
        P \in PrefixSet, sep \in SepSet,
        ms \in SeqsOf(MemberSet, 0, MaxMembers), layout \in Layouts }

LeadSet == { <<"x", " ">>, <<"x", "-", "y", " ">>, <<"[", "x", "]", ":", "y", " ">> }
TrailSet == { <<>>, <<" ", "y">>, <<" ", "[", "y", "]">> }
FramePrefixSet == { <<"a">>, <<"[", "b", "]">> }
FrameBody == <<"c", " ", "d">>

\* a group between tokens that stand outside it
FrameInputs ==
    { lead \o Group(P, sep, FrameBody) \o trail :
        lead \in LeadSet, P \in FramePrefixSet, sep \in SEPARATORS, trail \in TrailSet }

\* characters before a parenthesis that are no separators
NonSepSet == {"_", ".", "!", "+"}

\* an expandable group followed by a group-like construct without separator
MixedInputs ==
    { Group(P1, sep, <<"b">>) \o <<" ">> \o Group(P2, c, FrameBody) :
        P1 \in FramePrefixSet, sep \in SEPARATORS, P2 \in FramePrefixSet, c \in NonSepSet }

\* the prefix and the separator of the group at nesting level j
LevelPrefix(j) == IF j % 2 = 1 THEN <<"a">> ELSE <<"x">>
LevelSep(j) == IF j % 3 = 0 THEN ":" ELSE "-"

RECURSIVE Nested(_, _)
\* groups nested k levels deep, the outermost one at level k; with a sibling,
\* every group holds a plain member before the nested group
Nested(k, sibling) ==
    IF k = 0 THEN <<"b">>
    ELSE Group(LevelPrefix(k), LevelSep(k),
               (IF sibling THEN <<"c", " ">> ELSE <<>>) \o Nested(k - 1, sibling))

NestedInputs ==
    { Nested(k, FALSE) : k \in 0..MaxNest } \cup { Nested(k, TRUE) : k \in 1..MaxSiblingNest }

FreeAlphabet == {"a", "-", ":", "(", ")", "[", "]", " ", "!", "~", "_"}

\* arbitrary short strings, malformed ones included
FreeInputs == SeqsOf(FreeAlphabet, 0, MaxLen)

BatchPool ==
    { <<"a", "-", "(", "b", " ", "c", ")">>, <<"d", ":", "(", "y", ")">>,
      <<"x">>, Nested(2, TRUE), Nested(10, FALSE) }

\* the invocations: one literal of any family, or several of the pool
Invocations ==
    { <<s>> : s \in GroupInputs \cup FrameInputs \cup MixedInputs
                       \cup NestedInputs \cup FreeInputs }
      \cup SeqsOf(BatchPool, 2, MaxInputs)

----------------------------------------------------------------------------
(* The macro as a state machine *)

Init ==
    /\ inputs \in Invocations
    /\ parsed = <<>>
    /\ previous = <<>>
    /\ depth = 0
    /\ pc = "parse"
    /\ pushes = <<>>

\* UnoClassExpr::parse reads the next literal and enters transform
ParseExpr ==
    /\ pc = "parse"
    /\ Len(parsed) < Len(inputs)
    /\ previous' = inputs[Len(parsed) + 1]
    /\ depth' = InitialDepth
    /\ pc' = "loop"
    /\ UNCHANGED <<inputs, parsed, pushes>>

\* one turn of the loop of transform
LoopPass ==
    /\ pc = "loop"
    /\ LET transformed == shallow_transform(previous)
           d == DecU8(depth)
       IN  /\ depth' = d
           /\ IF BreakLoop(transformed, previous, d)
              THEN pc' = "break" /\ previous' = previous
              ELSE pc' = "loop" /\ previous' = transformed
    /\ UNCHANGED <<inputs, parsed, pushes>>

\* transform returns previous; UnoClassExpr::parse wraps it in a literal
NewLitStr ==
    /\ pc = "break"
    /\ parsed' = Append(parsed, previous)
    /\ pc' = "parse"
    /\ UNCHANGED <<inputs, previous, depth, pushes>>

\* the pushes in reverse order
PushClasses_Reversed(classes) ==
    [k \in 1..Len(classes) |-> classes[Len(classes) + 1 - k]]

\* the push statements generated for the parsed literals
PushClasses(classes) == [k \in 1..Len(classes) |-> classes[k]]

\* parse_terminated has read every literal; to_tokens emits the pushes
ToTokens ==
    /\ pc = "parse"
    /\ Len(parsed) = Len(inputs)
    /\ pushes' = PushClasses(parsed)
    /\ pc' = "done"
    /\ UNCHANGED <<inputs, parsed, previous, depth>>

Next == ParseExpr \/ LoopPass \/ NewLitStr \/ ToTokens

Spec == Init /\ [][Next]_vars

----------------------------------------------------------------------------
(* Vocabulary of the properties *)

\* the literal transform is working on
Current == inputs[Len(parsed) + 1]

InTransform == pc \in {"loop", "break"}

\* exactly one pass has been applied: previous is its output
AfterFirstPass == InTransform /\ depth = InitialDepth - 1

\* transform is about to return previous
Returning == pc = "break"

StartsWith(s, head) == Len(s) >= Len(head) /\ SubSeq(s, 1, Len(head)) = head

EndsWith(s, tail) ==
    Len(s) >= Len(tail) /\ SubSeq(s, Len(s) - Len(tail) + 1, Len(s)) = tail

\* Current may be the group of P and sep laid out as layout
Opens(P, sep, layout) == StartsWith(Current, P \o <<sep, "(">> \o layout.pad)

PlainMembers == { m \in MemberSet : m[1] # "!" /\ m # <<"~">> }
NonPlaceholders == { m \in MemberSet : m # <<"~">> }

\* what the specification says a member becomes
Relocated(P, sep, m) ==
    IF m = <<"~">> THEN P
    ELSE IF m[1] = "!" THEN <<"!">> \o P \o <<sep>> \o Tail(m)
    ELSE P \o <<sep>> \o m

ExpectedGroup(P, sep, ms) ==
    Join([k \in 1..Len(ms) |-> Relocated(P, sep, ms[k])], <<" ">>)

RECURSIVE FlatTokens(_, _)
\* the tokens of Nested(k, sibling) fully flattened: every leaf member behind
\* the prefixes of the groups around it, the outermost first
FlatTokens(k, sibling) ==
    IF k = 0 THEN << <<"b">> >>
    ELSE LET pre   == LevelPrefix(k) \o <<LevelSep(k)>>
             inner == FlatTokens(k - 1, sibling)
         IN  (IF sibling THEN << pre \o <<"c">> >> ELSE <<>>)
               \o [j \in 1..Len(inner) |-> pre \o inner[j]]

Flat(k, sibling) == Join(FlatTokens(k, sibling), <<" ">>)

RECURSIVE Passes(_, _)
\* the output of n passes
Passes(s, n) == IF n = 0 THEN s ELSE shallow_transform(Passes(s, n - 1))

\* no '-' or ':' stands right before a parenthesis
NoSeparatorBeforeParen(s) ==
    \A i \in 1..(Len(s) - 1) : s[i + 1] = "(" => s[i] \notin {"-", ":"}

\* no text, separator, opening parenthesis and a later closing parenthesis
NoCompleteGroup(s) ==
    ~ \E i \in 2..(Len(s) - 1) :
        /\ s[i] \in {"-", ":"}
        /\ s[i + 1] = "("
        /\ \E j \in (i + 2)..Len(s) : s[j] = ")"

----------------------------------------------------------------------------
(* The claims *)

\* C1: one pass replaces a group P SEP (BODY), SEP '-' or ':', whose n >= 0
\* members have no leading '!' and are not '~', by the n tokens P+SEP+m_i in
\* body order, joined by one space each (the empty string when n = 0).
C1_PlainGroupExpansion ==
    AfterFirstPass =>
      \A P \in PrefixSet, sep \in SEPARATORS, layout \in Layouts :
        Opens(P, sep, layout) =>
          \A ms \in SeqsOf(PlainMembers, 0, MaxMembers) :
            Current = Group(P, sep, BodyText(ms, layout))
              => previous = Join([k \in 1..Len(ms) |-> P \o <<sep>> \o ms[k]], <<" ">>)

\* C2: an input nested k levels deep, k within the budget of ten passes, is
\* returned fully flattened, every leaf behind all enclosing prefixes, the
\* outermost first.
C2_NestedFullyFlattened ==
    Returning =>
      \A sibling \in BOOLEAN :
        \A k \in 0..(IF sibling THEN MaxSiblingNest ELSE MaxNest) :
          (k <= InitialDepth /\ Current = Nested(k, sibling))
            => previous = Flat(k, sibling)

\* C3: for every matched prefix, copied verbatim, a member '!'+rest becomes
\* '!'+prefix+separator+rest and a member without '!' (other than '~')
\* becomes prefix+separator+member.
C3_ImportanceRelocatedVerbatim ==
    AfterFirstPass =>
      \A P \in PrefixSet, sep \in SEPARATORS, layout \in Layouts :
        Opens(P, sep, layout) =>
          \A ms \in SeqsOf(NonPlaceholders, 1, MaxMembers) :
            Current = Group(P, sep, BodyText(ms, layout))
              => previous = ExpectedGroup(P, sep, ms)

\* C4: a member that is exactly '~' expands to the prefix alone, at the
\* member's position; a member that only contains '~' is not the placeholder.
C4_PlaceholderIsPrefixAlone ==
    AfterFirstPass =>
      \A P \in PrefixSet, sep \in SEPARATORS, layout \in Layouts :
        Opens(P, sep, layout) =>
          \A ms \in SeqsOf(MemberSet, 1, MaxMembers) :
            Current = Group(P, sep, BodyText(ms, layout))
              => /\ previous =
                      Join([k \in 1..Len(ms) |->
                              IF ms[k] = <<"~">> THEN P
                              ELSE shallow_transform(Group(P, sep, ms[k]))],
                           <<" ">>)
                 /\ (Len(ms) = 1 /\ ms[1] # <<"~">>) => previous # P

C4_Witness ==
    /\ AfterFirstPass
    /\ Current = <<"a", "-", "(", "~", " ", "~", "b", ")">>
    /\ previous = <<"a", " ", "a", "-", "~", "b">>

\* C5: transform returns the string reached by the last pass applied: when
\* the budget ends the loop, the output of the tenth pass.
C5_ReturnsTenthPassOutput ==
    (Returning /\ depth = 0) => previous = Passes(Current, InitialDepth)

\* C6: every literal is transformed on its own and the pushes are
\* transform(s_1), .., transform(s_n), one per literal, in input order.
C6_PushesInInputOrder ==
    pc = "done" =>
      /\ Len(pushes) = Len(inputs)
      /\ \A i \in 1..Len(inputs) : pushes[i] = transform(inputs[i])
      /\ inputs = << <<"a", "-", "(", "b", " ", "c", ")">>, <<"d", ":", "(", "y", ")">> >>
           => pushes = << <<"a", "-", "b", " ", "a", "-", "c">>, <<"d", ":", "y">> >>

C6_Witness ==
    /\ pc = "done"
    /\ inputs = << <<"a", "-", "(", "b", " ", "c", ")">>, <<"d", ":", "(", "y", ")">> >>
    /\ pushes = << <<"a", "-", "b", " ", "a", "-", "c">>, <<"d", ":", "y">> >>

\* C7: transform has no error outcome: the pass counter stays within 0..10,
\* a pass starts only with the counter above zero, so the loop ends within
\* ten passes; an input that holds no complete group is returned unchanged.
C7_NoErrorOutcome ==
    /\ depth \in 0..InitialDepth
    /\ pc = "loop" => depth >= 1
    /\ Returning => depth < InitialDepth
    /\ (Returning /\ NoCompleteGroup(Current)) => previous = Current

C7_Witness ==
    /\ Returning
    /\ Current = <<"a", "-", "(", "a">>
    /\ previous = Current
    /\ depth = InitialDepth - 1

\* C8: a string that one pass maps to itself is returned unchanged, and a
\* result returned because a pass changed nothing is a fixed point of the
\* pass and of transform.
C8_IdempotentAtFixedPoint ==
    /\ (Returning /\ shallow_transform(Current) = Current) => previous = Current
    /\ (Returning /\ depth > 0)
         => /\ shallow_transform(previous) = previous
            /\ transform(previous) = previous

C8_Witness ==
    /\ Returning
    /\ depth > 0
    /\ Current = <<"a", "-", "(", "b", " ", "c", ")">>
    /\ previous = <<"a", "-", "b", " ", "a", "-", "c">>

\* C9: text in which the character before a parenthesis is never '-' or ':'
\* is left unchanged by a pass and by transform, and so is a construct
\* PREFIX c ( BODY ), c no separator, that follows an expanded group.
C9_NonSeparatorUnchanged ==
    InTransform =>
      /\ NoSeparatorBeforeParen(Current) => previous = Current
      /\ \A P \in FramePrefixSet, c \in NonSepSet :
           EndsWith(Current, <<" ">> \o Group(P, c, FrameBody))
             => EndsWith(previous, <<" ">> \o Group(P, c, FrameBody))

C9_Witness ==
    /\ Returning
    /\ Current = <<"a", "-", "(", "b", ")", " ", "a", "_", "(", "c", " ", "d", ")">>
    /\ previous = <<"a", "-", "b", " ", "a", "_", "(", "c", " ", "d", ")">>

\* C10: a pass changes only the groups it expands: the tokens before and
\* after a group stay as they are, once each, and none is taken into the
\* prefix of the group.
C10_OutsideTokensUntouched ==
    AfterFirstPass =>
      \A lead \in LeadSet, P \in FramePrefixSet, sep \in SEPARATORS, trail \in TrailSet :
        Current = lead \o Group(P, sep, FrameBody) \o trail
          => previous = lead \o P \o <<sep, "c", " ">> \o P \o <<sep, "d">> \o trail

====
